---- MODULE Spec2Model ----
(***************************************************************************)
(* The data-fetching hook layer (hooks over useSWR) and the ChainPanel     *)
(* view component of the AGiXT interactive client.                         *)
(*                                                                         *)
(* Spec      : a page that mounts hooks; the SWR cache, the fetchers in    *)
(*             flight and the network requests they issue.                 *)
(* PanelSpec : ChainPanel (delete / rename / export) and the calls it     *)
(*             makes on the REST client context.agixt.                     *)
(* CacheSpec : ChainPanel's mutations together with the useChain cache.    *)
(* AgentSpec : useAgent on a page whose companies are already loaded.      *)
(* HistorySpec : one render of ConversationHistory over a message list.    *)
(* FeedbackSpec : the feedback dialog of one ChatMessage.                  *)
(***************************************************************************)
EXTENDS Integers, Sequences, FiniteSets, Bags, TLC

VARIABLES
    mounted,      \* the hook calls of the components on the page
    cookie,       \* the 'agixt-agent' cookie
    cache,        \* SWR cache: serialised key -> [data, error, by]
    settled,      \* the fetcher that settled last: its call and what came back
    inflight,     \* SWR's table of running fetchers (a bag)
    requests,     \* every network request issued so far: [call, req]
    events,       \* focus, reconnect and timer events so far
    chainParam,   \* ChainPanel: searchParams.get('chain')
    renaming,     \* ChainPanel: useState(false)
    newName,      \* ChainPanel: useState('')
    showCreateDialog, \* ChainPanel prop
    calls,        \* ChainPanel: the pending context.agixt calls (a bag)
    issued,       \* ChainPanel: context.agixt calls issued so far
    lastNav,      \* ChainPanel: the last router.push
    download,     \* ChainPanel: the last file handed to the browser
    unhandled,    \* ChainPanel: the last promise rejection nothing handled
    server,       \* the names of the chains the server holds
    chatHistory,  \* ConversationHistory prop: the messages, or null
    lastUserMessage, \* ConversationHistory: let lastUserMessage of the render
    rendered,     \* ConversationHistory: the ChatMessage elements of the render
    chatMessage,  \* ChatMessage props: chatItem, lastUserMessage, isLoading
    vote,         \* ChatMessage: useState(0)
    open,         \* ChatMessage: useState(false)
    feedback,     \* ChatMessage: useState("")
    learned       \* the last sdk.learnText call and how many were made

hookVars == <<mounted, cookie, cache, settled, inflight, requests, events>>
panelVars ==
    <<chainParam, renaming, newName, showCreateDialog, calls, issued, lastNav, download,
      unhandled, server>>
chatVars == <<chatHistory, lastUserMessage, rendered, chatMessage, vote, open, feedback, learned>>
vars == <<mounted, cookie, cache, settled, inflight, requests, events, chainParam, renaming, newName,
          showCreateDialog, calls, issued, lastNav, download, unhandled, server,
          chatHistory, lastUserMessage, rendered, chatMessage, vote, open, feedback, learned>>

\* ------------------------------------------------------------------ bounds
MaxEvents == 1
MaxCalls == 2
MaxLen == 3
MaxLearn == 2

\* ------------------------------------------------------------- JS values
\* Every JS value is a record tagged by t, so that strings, null, undefined,
\* lists and entities can sit in one cache and one key.
Str(s) == [t |-> "str", s |-> s]
Bool(b) == [t |-> "bool", b |-> b]
Null == [t |-> "null"]
UndefV == [t |-> "undefined"]
List(items) == [t |-> "list", items |-> items]
EmptyList == List(<<>>)
Malformed == [t |-> "malformed"]

\* JS truthiness of a string-or-absent value
Truthy(v) == v.t = "str" /\ v.s # ""

\* a ?? b
Coalesce(a, b) == IF a.t \in {"null", "undefined"} THEN b ELSE a

\* a || b on string-or-absent values
OrElse(a, b) == IF Truthy(a) THEN a ELSE b

\* `${v}` : template literal conversion of a string-or-absent value
TemplateStr(v) ==
    CASE v.t = "str" -> v.s
      [] v.t = "null" -> "null"
      [] v.t = "undefined" -> "undefined"

MkAgent(n, d) == [t |-> "agent", name |-> n, default |-> d]
Company1 ==
    [t |-> "company", id |-> "c1", name |-> "Co1", primary |-> TRUE,
     agents |-> <<MkAgent("a1", FALSE), MkAgent("a2", TRUE)>>]
User1 ==
    [t |-> "user", id |-> "u1", email |-> "u1@x", firstName |-> "F", lastName |-> "L",
     companies |-> <<Company1>>]
ZeroUser ==
    [t |-> "user", id |-> "", email |-> "", firstName |-> "", lastName |-> "",
     companies |-> <<>>]
AgentResult(a, cmds) == [t |-> "agentResult", agent |-> a, commands |-> cmds]
NoAgent == AgentResult(Null, EmptyList)

ChainNames == {"A", "B"}
MkChain(n) == [t |-> "chain", name |-> n, steps |-> <<"step1">>]

\* ------------------------------------------------------------ hook calls
Hooks ==
    {"useAgents", "useAgent", "usePromptCategories", "usePrompt", "usePrompts",
     "useCompanies", "useCompany", "useUser", "useProvider", "useProviders",
     "useInvitations", "useCommandArgs", "useChain", "useChains", "useConversation",
     "useConversations", "useOldCompanies", "useOldInvitations", "useOldActiveCompany"}

Call(h, a, w) == [hook |-> h, arg |-> a, ws |-> w]

\* the arguments a component may pass to a hook
ArgsOf(h) ==
    CASE h = "useAgent" -> {UndefV, Str("a1")}
      [] h = "usePrompt" -> {UndefV, Str("p1")}
      [] h = "useCompany" -> {UndefV, Str("c1")}
      [] h = "useProvider" -> {UndefV, Str("prov")}
      [] h = "useInvitations" -> {UndefV, Str("c1")}
      [] h = "useCommandArgs" -> {Str(""), Str("cmd")}
      [] h = "useChain" -> {UndefV} \cup {Str(n) : n \in ChainNames}
      [] h = "useConversation" -> {Str(""), Str("conv1")}
      [] h = "useOldInvitations" -> {UndefV, Str("c1")}
      [] OTHER -> {UndefV}

Calls ==
    UNION {{Call(h, a, FALSE) : a \in ArgsOf(h)} : h \in Hooks}
    \cup {Call("useAgent", a, TRUE) : a \in ArgsOf("useAgent")}

\* the calls of useAgent: without a name, with an empty name, with a name
AgentCalls == {Call("useAgent", a, w) : a \in {UndefV, Str(""), Str("a1")}, w \in BOOLEAN}

\* --------------------------------------------------- useSWR configuration
\* The options each hook passes to useSWR; an option a hook does not pass keeps
\* SWR's default (refreshInterval 0, revalidateOnFocus and
\* revalidateOnReconnect true, dedupingInterval 2000 ms).
fallbackData(h) ==
    CASE h = "useAgent" -> NoAgent
      [] h = "useUser" -> ZeroUser
      [] h \in {"usePrompt", "useCompany", "useProvider", "useCommandArgs", "useChain",
                "useConversation"} -> Null
      [] OTHER -> EmptyList

refreshIntervalEveryHook(h) == 1000

refreshInterval(h) == IF h = "useConversation" THEN 1000 ELSE 0

revalidateOnFocus(h) == h # "usePrompt"

revalidateOnReconnect(h) == h # "usePrompt"

dedupingIntervalOff(h) == 0

dedupingInterval(h) == 2000

\* ------------------------------------------------------------ cache keys
\* A string key is kept as it is; an array key is serialised by a stable hash
\* of its elements, so two arrays with equal contents are one key.
StrKey(path) == [arr |-> FALSE, parts |-> <<Str(path)>>]
ArrKey(parts) == [arr |-> TRUE, parts |-> parts]
NullKey == [arr |-> FALSE, parts |-> <<>>]

\* what useSWR returns as data for a key: the cached value, else fallbackData
DataOf(k, h) ==
    IF k # NullKey /\ k \in DOMAIN cache /\ cache[k].data # UndefV
    THEN cache[k].data
    ELSE fallbackData(h)

ErrorOf(k) == k # NullKey /\ k \in DOMAIN cache /\ cache[k].error

\* Array.prototype.find, given the indices whose element satisfies the test
Find(seq, hits) ==
    IF hits = {} THEN UndefV ELSE seq[CHOOSE i \in hits : \A j \in hits : i <= j]

\* x?.items of a value that may not be a list
Items(v) == IF v.t = "list" THEN v.items ELSE <<>>

UserKey == StrKey("/user")
UserData == DataOf(UserKey, "useUser")

CompaniesKey == ArrKey(<<Str("/companies"), UserData>>)
CompaniesData == DataOf(CompaniesKey, "useCompanies")

CompanyKey(id) ==
    ArrKey(<<Str("/company?id=" \o TemplateStr(id)), CompaniesData>>)
CompanyData(id) == DataOf(CompanyKey(id), "useCompany")

PromptsKey == StrKey("/prompts")
PromptsData == DataOf(PromptsKey, "usePrompts")

\* useAgent's body before useSWR: the name searched for, the agent found in
\* the primary company, and whether the cookie is written
\* primaryCompany?.agents
PrimaryAgents(companies) ==
    LET primaryCompany == Find(companies, {i \in 1..Len(companies) : companies[i].primary})
    IN IF primaryCompany.t = "company" THEN primaryCompany.agents ELSE <<>>

\* primaryAgent || primaryCompany?.agents[0]
FoundEarlyFirstAgent(agents) == agents[1]

FoundEarly(agents) ==
    LET primaryAgent == Find(agents, {i \in 1..Len(agents) : agents[i].default})
    IN IF primaryAgent.t = "agent" THEN primaryAgent ELSE agents[1]

SearchName(first, companies, agents) ==
    IF ~Truthy(first) /\ Len(companies) > 0 /\ Len(agents) > 0
    THEN [searchName |-> Str(FoundEarly(agents).name), foundEarly |-> FoundEarly(agents),
          setCookie |-> TRUE]
    ELSE [searchName |-> first, foundEarly |-> Null, setCookie |-> FALSE]

AgentRenderWith(name, companies) ==
    SearchName(OrElse(name, cookie), companies, PrimaryAgents(companies))

AgentRender(name) == AgentRenderWith(name, Items(CompaniesData))

NullableKeyAlways(path, a) == ArrKey(<<Str(path), a>>)

\* name ? [path, name] : null
NullableKey(path, a) == IF Truthy(a) THEN ArrKey(<<Str(path), a>>) ELSE NullKey

\* the first argument of useSWR in each hook
KeyOf(c) ==
    LET h == c.hook
        a == c.arg
    IN CASE h = "useAgents" -> ArrKey(<<Str("/agents"), CompaniesData>>)
         [] h = "useAgent" ->
              ArrKey(<<Str("/agent?name=" \o TemplateStr(AgentRender(a).searchName)),
                       CompaniesData, Bool(c.ws)>>)
         [] h = "usePromptCategories" -> StrKey("/promptCategories")
         [] h = "usePrompt" -> StrKey("/prompt?name=" \o TemplateStr(a))
         [] h = "usePrompts" -> PromptsKey
         [] h = "useCompanies" -> CompaniesKey
         [] h = "useCompany" -> CompanyKey(a)
         [] h = "useUser" -> UserKey
         [] h = "useProvider" -> NullableKey("/provider", a)
         [] h = "useProviders" -> StrKey("/providers")
         [] h = "useInvitations" ->
              IF Truthy(a) THEN ArrKey(<<Str("/invitations"), a>>)
              ELSE StrKey("/invitations")
         [] h = "useCommandArgs" -> NullableKey("/command_args", a)
         [] h = "useChain" -> NullableKey("/chain", a)
         [] h = "useChains" -> StrKey("/chains")
         [] h = "useConversation" -> NullableKey("/conversation", a)
         [] h = "useConversations" -> StrKey("/chains")
         [] h = "useOldCompanies" -> StrKey("/companies")
         [] h = "useOldInvitations" ->
              IF Truthy(a) THEN StrKey("/invitations/" \o TemplateStr(a))
              ELSE StrKey("/invitations")
         [] h = "useOldActiveCompany" ->
              LET companyData == CompanyData(UndefV)
              IN ArrKey(<<Str("/companies"),
                          IF companyData.t = "company" THEN Str(companyData.id) ELSE Null>>)

\* what a hook call returns as data and error
HookData(c) == DataOf(KeyOf(c), c.hook)
HookError(c) == ErrorOf(KeyOf(c))

\* the hook calls a hook call makes, innermost first, itself last
Nested(c) ==
    LET user == Call("useUser", UndefV, FALSE)
        companies == Call("useCompanies", UndefV, FALSE)
    IN CASE c.hook \in {"useAgents", "useAgent", "useCompany"} -> <<user, companies, c>>
         [] c.hook = "useCompanies" -> <<user, c>>
         [] c.hook = "usePrompt" -> <<Call("usePrompts", UndefV, FALSE), c>>
         [] c.hook = "useOldActiveCompany" ->
              <<user, companies, Call("useCompany", UndefV, FALSE), c>>
         [] OTHER -> <<c>>

\* ------------------------------------------------- requests and responses
Req(op, var) == [op |-> op, var |-> var]
NoReq == Req("none", UndefV)

\* a response object with one top-level field
Resp(f, v) == [t |-> "response", field |-> f, value |-> v]

\* response.f
Get(r, f) == IF r.field = f THEN r.value ELSE UndefV

NetErr == [kind |-> "neterr"]
Ok(r) == [kind |-> "resp", resp |-> r]
LocalRun == [kind |-> "local"]

\* the top-level field a well-formed response to an operation carries
FieldOf(op) ==
    CASE op = "GetUser" -> "user"
      [] op = "GetAgent" -> "agent"
      [] op = "GetPromptCategories" -> "promptCategories"
      [] op = "GetPrompts" -> "prompts"
      [] op = "GetProvider" -> "provider"
      [] op = "GetProviders" -> "providers"
      [] op = "GetInvitations" -> "invitations"
      [] op = "GetCommandArgs" -> "commandArgs"
      [] op = "GetChain" -> "chain"
      [] op = "GetChains" -> "chains"
      [] op = "WatchConversation" -> "conversation"
      [] op = "GetConversations" -> "conversations"
      [] OTHER -> "data"

\* the value a healthy server puts in that field
GoodValue(q) ==
    CASE q.op \in {"GetUser", "GET /v1/user"} -> User1
      [] q.op = "GetAgent" -> MkAgent(TemplateStr(q.var), FALSE)
      [] q.op = "GetPrompts" -> List(<<[t |-> "prompt", name |-> "p1"]>>)
      [] q.op = "GetProvider" -> [t |-> "provider", name |-> TemplateStr(q.var)]
      [] q.op = "GetCommandArgs" -> [t |-> "commandArgs", name |-> TemplateStr(q.var)]
      [] q.op = "GetChain" -> MkChain(TemplateStr(q.var))
      [] q.op = "GetChains" -> List(<<MkChain("A")>>)
      [] q.op = "WatchConversation" -> [t |-> "conversation", id |-> TemplateStr(q.var)]
      [] q.op = "GetConversations" -> List(<<[t |-> "edge", id |-> "conv1"]>>)
      [] q.op = "getCompanies" -> List(<<Company1>>)
      [] q.op = "getCommands" -> List(<<Str("cmd")>>)
      [] OTHER -> List(<<Str("item")>>)

\* what may come back for a request: a network failure, a well-formed
\* response, a response whose field has the wrong shape, or (GraphQL) one
\* without the field
Outcomes(q) ==
    {NetErr, Ok(Resp(FieldOf(q.op), GoodValue(q))), Ok(Resp(FieldOf(q.op), Malformed))}
    \cup (IF FieldOf(q.op) = "data" THEN {} ELSE {Ok(Resp("errors", Malformed))})

\* the server answers GetChain well only for a chain it holds
ServerOutcomes(q) ==
    IF q.op = "GetChain" /\ TemplateStr(q.var) \notin server
    THEN Outcomes(q) \ {Ok(Resp(FieldOf(q.op), GoodValue(q)))}
    ELSE Outcomes(q)

\* Schema.parse(v) succeeds: v has the shape the schema describes
Valid(tag, v) == v.t = tag

\* --------------------------------------------------------------- fetchers
\* the values of the render a fetcher closes over
ClosureWith(h, r) ==
    [searchName |-> IF h = "useAgent" THEN r.searchName ELSE UndefV,
     foundEarly |-> IF h = "useAgent" THEN r.foundEarly ELSE Null,
     companies |-> IF h \in {"useAgent", "useAgents", "useCompany"}
                   THEN CompaniesData ELSE Null,
     user |-> IF h = "useCompanies" THEN UserData ELSE Null,
     prompts |-> IF h = "usePrompt" THEN PromptsData ELSE Null,
     companyData |-> IF h = "useOldActiveCompany" THEN CompanyData(UndefV) ELSE Null]

Closure(c) == ClosureWith(c.hook, AgentRender(c.arg))

\* companies.flatMap(company => company.agents.map(agent => ({...agent, companyName})))
RECURSIVE FlatAgents(_)
FlatAgents(companies) ==
    IF companies = <<>> THEN <<>>
    ELSE LET co == Head(companies)
         IN [i \in 1..Len(co.agents) |->
                [t |-> "agent", name |-> co.agents[i].name,
                 default |-> co.agents[i].default, companyName |-> co.name]]
            \o FlatAgents(Tail(companies))

\* useAgent without settings: foundEarly, else the agent named searchName in
\* the last company that has one
RECURSIVE AgentIn(_, _, _)
AgentIn(companies, searchName, sofar) ==
    IF companies = <<>> THEN sofar
    ELSE LET as == Head(companies).agents
             agent == Find(as, {i \in 1..Len(as) : Str(as[i].name) = searchName})
         IN AgentIn(Tail(companies), searchName,
                    IF agent.t = "agent" THEN agent ELSE sofar)

LocalAgent(clo) ==
    IF Len(Items(clo.companies)) > 0 /\ clo.foundEarly.t # "agent"
    THEN AgentIn(Items(clo.companies), clo.searchName, clo.foundEarly)
    ELSE clo.foundEarly

UseAgentFirstReqAlways(c, clo) == Req("GetAgent", clo.searchName)

\* the request useAgent's fetcher sends first
UseAgentFirstReq(c, clo) ==
    IF c.ws THEN Req("GetAgent", clo.searchName)
    ELSE IF LocalAgent(clo).t = "agent"
         THEN Req("getCommands", Str(LocalAgent(clo).name))
         ELSE NoReq

UseChainReqNoVariables(chainName) == Req("GetChain", UndefV)

\* client.request(query, { chainName: chainName })
UseChainReq(chainName) == Req("GetChain", chainName)

\* the request a fetcher has sent when it reaches its first await
FirstReq(c, clo) ==
    LET h == c.hook
    IN CASE h \in {"useAgents", "useCompanies", "useCompany", "usePrompt"} -> NoReq
         [] h = "useAgent" -> UseAgentFirstReq(c, clo)
         [] h = "usePromptCategories" -> Req("GetPromptCategories", UndefV)
         [] h = "usePrompts" -> Req("GetPrompts", UndefV)
         [] h = "useUser" -> Req("GetUser", UndefV)
         [] h = "useProvider" -> Req("GetProvider", c.arg)
         [] h = "useProviders" -> Req("GetProviders", UndefV)
         [] h = "useInvitations" -> Req("GetInvitations", c.arg)
         [] h = "useCommandArgs" -> Req("GetCommandArgs", c.arg)
         [] h = "useChain" -> UseChainReq(c.arg)
         [] h = "useChains" -> Req("GetChains", UndefV)
         [] h = "useConversation" -> Req("WatchConversation", c.arg)
         [] h = "useConversations" -> Req("GetConversations", UndefV)
         [] h = "useOldCompanies" -> Req("getCompanies", UndefV)
         [] h = "useOldInvitations" -> Req("getInvitations", c.arg)
         [] h = "useOldActiveCompany" -> Req("getCompanies", UndefV)

\* what a fetcher does next: return a value, throw, or send another request
Return(v) == [kind |-> "return", v |-> v, req |-> NoReq]
Throw == [kind |-> "throw", v |-> UndefV, req |-> NoReq]
Then(q) == [kind |-> "next", v |-> UndefV, req |-> q]

ParseFieldUnchecked(h, f, tag, out) ==
    IF out.kind = "resp" THEN Return(Get(out.resp, f)) ELSE Return(fallbackData(h))

\* try { ...; return Schema.parse(response.f) } catch { return fallback }
ParseField(h, f, tag, out) ==
    IF out.kind = "resp" /\ Valid(tag, Get(out.resp, f))
    THEN Return(Get(out.resp, f))
    ELSE Return(fallbackData(h))

\* try { validated = Schema.parse(response); return validated.f } catch { ... }
ParseWhole(h, f, tag, out) ==
    IF out.kind = "resp" /\ out.resp.field = f /\ Valid(tag, out.resp.value)
    THEN Return(out.resp.value)
    ELSE Return(fallbackData(h))

\* useOldActiveCompany after both awaits: the company of getCompanies() whose
\* id is companyData.id, with the role of the same company of the user
\* response; every missing piece is a TypeError, and nothing catches it
ActiveCompanyTarget(companyData, companies, user) ==
    LET cs == Items(companies)
        us == IF user.t = "user" THEN user.companies ELSE <<>>
        target == Find(cs, {i \in 1..Len(cs) : cs[i].id = companyData.id})
        mine == Find(us, {i \in 1..Len(us) : us[i].id = companyData.id})
    IN IF /\ companies.t = "list"
          /\ user.t = "user"
          /\ companyData.t = "company"
          /\ target.t = "company"
          /\ mine.t = "company"
       THEN Return(target)
       ELSE Throw

\* the legacy hooks: no try/catch around the awaits
OldFetcher(f, out) ==
    LET h == f.call.hook
    IN IF out.kind = "neterr" THEN Throw
       ELSE CASE h = "useOldActiveCompany" /\ f.req.op = "getCompanies" ->
                   Then(Req("GET /v1/user", UndefV))
              [] h = "useOldActiveCompany" /\ f.req.op # "getCompanies" ->
                   ActiveCompanyTarget(f.clo.companyData, f.got, out.resp.value)
              [] OTHER -> Return(out.resp.value)

\* the rest of a fetcher once its outstanding request has settled as out
OnResponse(f, out) ==
    LET h == f.call.hook
    IN CASE h = "useUser" -> ParseField(h, "user", "user", out)
         [] h = "useAgent" /\ f.call.ws -> ParseField(h, "agent", "agent", out)
         [] h = "useAgent" /\ ~f.call.ws ->
              IF out.kind = "resp"
              THEN Return(AgentResult(LocalAgent(f.clo), out.resp.value))
              ELSE Return(fallbackData(h))
         [] h = "usePromptCategories" ->
              IF out.kind = "resp" THEN Return(out.resp) ELSE Return(fallbackData(h))
         [] h = "usePrompts" ->
              IF out.kind = "resp" /\ Get(out.resp, "prompts") # UndefV
              THEN Return(Get(out.resp, "prompts"))
              ELSE Return(fallbackData(h))
         [] h = "useProvider" -> ParseWhole(h, "provider", "provider", out)
         [] h = "useProviders" -> ParseField(h, "providers", "list", out)
         [] h = "useInvitations" -> ParseWhole(h, "invitations", "list", out)
         [] h = "useCommandArgs" -> ParseWhole(h, "commandArgs", "commandArgs", out)
         [] h = "useChain" -> ParseField(h, "chain", "chain", out)
         [] h = "useChains" -> ParseField(h, "chains", "list", out)
         [] h = "useConversation" ->
              IF out.kind = "resp" THEN Return(Get(out.resp, "conversation"))
              ELSE Return(fallbackData(h))
         [] h = "useConversations" -> ParseField(h, "conversations", "list", out)
         [] h \in {"useOldCompanies", "useOldInvitations", "useOldActiveCompany"} ->
              OldFetcher(f, out)

\* a fetcher that awaits nothing
LocalResult(f) ==
    LET h == f.call.hook
        companies == Items(f.clo.companies)
        agentName == cookie
    IN CASE h = "useAgents" -> Return(List(FlatAgents(companies)))
         [] h = "useCompanies" ->
              Return(List(IF f.clo.user.t = "user" THEN f.clo.user.companies ELSE <<>>))
         [] h = "useCompany" ->
              LET hit == IF Truthy(f.call.arg)
                         THEN Find(companies,
                                   {i \in 1..Len(companies) :
                                        Str(companies[i].id) = f.call.arg})
                         ELSE Find(companies,
                                   {i \in 1..Len(companies) :
                                        IF Truthy(agentName)
                                        THEN \E j \in 1..Len(companies[i].agents) :
                                               Str(companies[i].agents[j].name) = agentName
                                        ELSE companies[i].primary})
              IN Return(IF hit = UndefV THEN Null ELSE hit)
         [] h = "usePrompt" ->
              LET ps == Items(f.clo.prompts)
                  hit == Find(ps, {i \in 1..Len(ps) : Str(ps[i].name) = f.call.arg})
              IN Return(IF hit = UndefV THEN Null ELSE hit)
         [] h = "useAgent" -> Return(AgentResult(LocalAgent(f.clo), EmptyList))

\* ------------------------------------------------------------------- SWR
InFlight(k, fl) == \E f \in BagToSet(fl) : f.key = k

\* the fetcher of call c, run up to its first await
Fetcher(c, k, clo) ==
    [key |-> k, call |-> c, clo |-> clo, req |-> FirstReq(c, clo), got |-> UndefV]

NewFetch(c) == Fetcher(c, KeyOf(c), Closure(c))

\* whether useSWR starts the fetcher of call c on this occasion: never for a
\* null key, never while the key's fetcher runs within the deduping interval;
\* on mount always, on a later render when the key has no cache entry, on
\* focus / reconnect / the refresh timer as the hook's options say
Revalidates(h, k, mode, fl) ==
    /\ k # NullKey
    /\ ~(dedupingInterval(h) > 0 /\ InFlight(k, fl))
    /\ CASE mode = "mount" -> TRUE
         [] mode = "render" -> k \notin DOMAIN cache /\ ~InFlight(k, fl)
         [] mode = "focus" -> revalidateOnFocus(h)
         [] mode = "reconnect" -> revalidateOnReconnect(h)
         [] mode = "tick" -> refreshInterval(h) > 0

ShouldStart(c, mode, fl) == Revalidates(c.hook, KeyOf(c), mode, fl)

RECURSIVE StartAll(_, _, _)
StartAll(cs, mode, fl) ==
    IF cs = <<>> THEN fl
    ELSE StartAll(Tail(cs), mode,
                  IF ShouldStart(Head(cs), mode, fl)
                  THEN fl (+) SetToBag({NewFetch(Head(cs))})
                  ELSE fl)

Sent(fl) ==
    {[call |-> f.call, req |-> f.req] : f \in {g \in BagToSet(fl) : g.req # NoReq}}

\* the hooks of component c run (useSWR in each), on occasion mode
Run(c, mode) ==
    /\ inflight' = StartAll(Nested(c), mode, inflight)
    /\ requests' = requests \cup Sent(inflight')

\* setCookie('agixt-agent', searchName) in useAgent's body
CookieSet(r) == IF r.setCookie THEN r.searchName ELSE cookie

CookieAfter(c) == IF c.hook = "useAgent" THEN CookieSet(AgentRender(c.arg)) ELSE cookie

EmptyCache == [k \in {} |-> Null]

NoneSettled ==
    [key |-> NullKey, call |-> Call("none", UndefV, FALSE), req |-> NoReq, out |-> LocalRun]

\* SWR stores what a fetcher settled with
Settle(f, r) ==
    LET k == f.key
        old == IF k \in DOMAIN cache THEN cache[k]
               ELSE [data |-> UndefV, error |-> FALSE, by |-> "none"]
        new == IF r.kind = "return"
               THEN [data |-> r.v, error |-> FALSE, by |-> f.call.hook]
               ELSE [data |-> old.data, error |-> TRUE, by |-> old.by]
    IN [x \in DOMAIN cache \cup {k} |-> IF x = k THEN new ELSE cache[x]]

Remove(fl, f) == fl (-) SetToBag({f})

\* ------------------------------------------------------------- the page
HookInit ==
    /\ mounted = {}
    /\ cookie \in {UndefV, Str("a1")}
    /\ cache = EmptyCache
    /\ settled = NoneSettled
    /\ inflight = EmptyBag
    /\ requests = {}
    /\ events = 0

NoDownload ==
    [download |-> "", content |-> "", requested |-> "", chainData |-> UndefV]

PanelIdle ==
    /\ renaming = FALSE
    /\ newName = ""
    /\ showCreateDialog = FALSE
    /\ calls = EmptyBag
    /\ issued = 0
    /\ lastNav = [by |-> "none", chain |-> Null, n |-> 0]
    /\ download = NoDownload
    /\ unhandled = [op |-> "none", n |-> 0]

\* a chat message: { role, message, timestamp }
ChatItem(role, message) == [role |-> role, message |-> message, timestamp |-> "t"]

NoLearn == [n |-> 0, agent |-> "", userInput |-> UndefV, text |-> "", collection |-> 0]

\* no conversation is on the page
ChatIdle ==
    /\ chatHistory = Null
    /\ lastUserMessage = ""
    /\ rendered = <<>>
    /\ chatMessage = [chatItem |-> ChatItem("", ""), lastUserMessage |-> UndefV,
                      isLoading |-> FALSE]
    /\ vote = 0
    /\ open = FALSE
    /\ feedback = ""
    /\ learned = NoLearn

\* the pages: one component calling one hook, or two components whose hooks
\* read related entities
NoArg(h) == Call(h, UndefV, FALSE)
Pages ==
    {{}} \cup {{c} : c \in Calls \cup AgentCalls}
    \cup {{NoArg("useChains"), NoArg("useConversations")},
          {NoArg("useInvitations"), NoArg("useOldInvitations")},
          {NoArg("useCompanies"), NoArg("useOldCompanies")},
          {NoArg("usePrompts"), Call("useConversation", Str("conv1"), FALSE)},
          {Call("useChain", Str("A"), FALSE), Call("useChain", Str("B"), FALSE)}}

\* a component that calls hook call c mounts
Mount(c) ==
    /\ c \notin mounted
    /\ mounted \cup {c} \in Pages
    /\ mounted' = mounted \cup {c}
    /\ cookie' = CookieAfter(c)
    /\ Run(c, "mount")
    /\ UNCHANGED <<cache, settled, events, panelVars, chatVars>>

\* a mounted component renders again
Render(c) ==
    /\ c \in mounted
    /\ cookie' = CookieAfter(c)
    /\ Run(c, "render")
    /\ UNCHANGED <<mounted, cache, settled, events, panelVars, chatVars>>

\* the window regains focus
Focus(c) ==
    /\ c \in mounted
    /\ events < MaxEvents
    /\ events' = events + 1
    /\ Run(c, "focus")
    /\ UNCHANGED <<mounted, cookie, cache, settled, panelVars, chatVars>>

\* the network comes back
Reconnect(c) ==
    /\ c \in mounted
    /\ events < MaxEvents
    /\ events' = events + 1
    /\ Run(c, "reconnect")
    /\ UNCHANGED <<mounted, cookie, cache, settled, panelVars, chatVars>>

\* the refresh timer of a mounted hook fires
Tick(c) ==
    /\ c \in mounted
    /\ refreshInterval(c.hook) > 0
    /\ events < MaxEvents
    /\ events' = events + 1
    /\ Run(c, "tick")
    /\ UNCHANGED <<mounted, cookie, cache, settled, panelVars, chatVars>>

\* the outstanding request of running fetcher f settles as out
NetResponse(f, out) ==
    /\ BagIn(f, inflight)
    /\ f.req # NoReq
    /\ out \in ServerOutcomes(f.req)
    /\ LET r == OnResponse(f, out)
       IN IF r.kind = "next"
          THEN /\ inflight' = Remove(inflight, f) (+)
                                SetToBag({[f EXCEPT !.req = r.req, !.got = out.resp.value]})
               /\ requests' = requests \cup {[call |-> f.call, req |-> r.req]}
               /\ UNCHANGED <<cache, settled>>
          ELSE /\ inflight' = Remove(inflight, f)
               /\ requests' = requests
               /\ cache' = Settle(f, r)
               /\ settled' = [key |-> f.key, call |-> f.call, req |-> f.req, out |-> out]
    /\ UNCHANGED <<mounted, cookie, events, panelVars, chatVars>>

\* running fetcher f, which awaits nothing, returns
LocalDone(f) ==
    /\ BagIn(f, inflight)
    /\ f.req = NoReq
    /\ inflight' = Remove(inflight, f)
    /\ cache' = Settle(f, LocalResult(f))
    /\ settled' = [key |-> f.key, call |-> f.call, req |-> NoReq, out |-> LocalRun]
    /\ UNCHANGED <<mounted, cookie, requests, events, panelVars, chatVars>>

Init == HookInit /\ PanelIdle /\ ChatIdle /\ chainParam = Null /\ server = ChainNames

Next ==
    \/ \E c \in Calls : Mount(c)
    \/ \E c \in Calls : Render(c)
    \/ \E c \in Calls : Focus(c)
    \/ \E c \in Calls : Reconnect(c)
    \/ \E c \in Calls : Tick(c)
    \/ \E f \in BagToSet(inflight) : \E out \in ServerOutcomes(f.req) : NetResponse(f, out)
    \/ \E f \in BagToSet(inflight) : LocalDone(f)

Spec == Init /\ [][Next]_vars

\* --------------------------------------------- useAgent on a loaded page
\* the company lists a user may have: none, a primary company with a default
\* agent, one without a default agent, one without agents, and no primary
\* company at all
MkCompany(id, primary, agents) ==
    [t |-> "company", id |-> id, name |-> "Co" \o id, primary |-> primary, agents |-> agents]

CompanyLists ==
    {<<>>,
     <<Company1>>,
     <<MkCompany("c2", FALSE, <<MkAgent("a3", TRUE)>>),
       MkCompany("c3", TRUE, <<MkAgent("a4", FALSE), MkAgent("a5", FALSE)>>)>>,
     <<MkCompany("c4", TRUE, <<>>)>>,
     <<MkCompany("c5", FALSE, <<MkAgent("a6", TRUE)>>)>>}

\* the cache once useUser and useCompanies have settled for a user with
\* companies cs
LoadedCache(cs) ==
    LET user == [User1 EXCEPT !.companies = cs]
        companiesKey == ArrKey(<<Str("/companies"), user>>)
    IN [k \in {UserKey, companiesKey} |->
           IF k = UserKey THEN [data |-> user, error |-> FALSE, by |-> "useUser"]
           ELSE [data |-> List(cs), error |-> FALSE, by |-> "useCompanies"]]

AgentInit ==
    /\ mounted = {}
    /\ cookie \in {UndefV, Str(""), Str("a1"), Str("a3")}
    /\ cache \in {LoadedCache(cs) : cs \in CompanyLists}
    /\ settled = NoneSettled
    /\ inflight = EmptyBag
    /\ requests = {}
    /\ events = 0
    /\ PanelIdle
    /\ ChatIdle
    /\ chainParam = Null
    /\ server = ChainNames

\* a component calling useAgent mounts and renders while its fetchers run
AgentNext ==
    \/ \E c \in AgentCalls : Mount(c)
    \/ \E c \in AgentCalls : Render(c)
    \/ \E f \in BagToSet(inflight) : \E out \in ServerOutcomes(f.req) : NetResponse(f, out)
    \/ \E f \in BagToSet(inflight) : LocalDone(f)

AgentSpec == AgentInit /\ [][AgentNext]_vars

\* ------------------------------------------------------------ ChainPanel
\* searchParams.get('chain') ?? ''
ChainArg == TemplateStr(Coalesce(chainParam, Str("")))

\* useChain(searchParams.get('chain') ?? undefined)
PanelCall == Call("useChain", Coalesce(chainParam, UndefV), FALSE)

\* JSON.stringify of a list of strings, or of undefined inside a Blob
RECURSIVE JoinQuoted(_)
JoinQuoted(items) ==
    IF items = <<>> THEN ""
    ELSE "\"" \o Head(items) \o "\"" \o
         (IF Len(items) > 1 THEN "," ELSE "") \o JoinQuoted(Tail(items))

JsonStringify(v) ==
    IF v.t = "chain" THEN "[" \o JoinQuoted(v.steps) \o "]" ELSE "undefined"

AgixtCall(op, a, b) == [op |-> op, a |-> a, b |-> b, chain |-> chainParam]

Pending(c, op) == BagIn(c, calls) /\ c.op = op

Issue(c) ==
    /\ issued < MaxCalls
    /\ issued' = issued + 1
    /\ calls' = calls (+) SetToBag({c})

Settled(c) == calls (-) SetToBag({c})

RenamedQueryKeepsOld(old, new) == Str(old)

\* current.set('chain', newName)
RenamedQuery(old, new) == Str(new)

\* useEffect: if (renaming) setNewName(searchParams.get('chain') ?? '')
EffectNewName(isRenaming, chain, name) ==
    IF isRenaming THEN TemplateStr(Coalesce(chain, Str(""))) ELSE name

\* the component renders: useChain runs
PanelRender ==
    /\ Run(PanelCall, "render")
    /\ UNCHANGED <<mounted, cookie, cache, settled, events, panelVars, chatVars>>

\* the chain selector, or the browser, changes the 'chain' query parameter
Select(n) ==
    /\ chainParam # Str(n)
    /\ chainParam' = Str(n)
    /\ newName' = EffectNewName(renaming, Str(n), newName)
    /\ UNCHANGED <<hookVars, chatVars, renaming, showCreateDialog, calls, issued, lastNav,
                   download, server, unhandled>>

\* the + button
ClickCreate ==
    /\ ~(renaming \/ showCreateDialog)
    /\ showCreateDialog' = TRUE
    /\ UNCHANGED <<hookVars, chatVars, chainParam, renaming, newName, calls, issued, lastNav,
                   download, server, unhandled>>

\* the parent closes the create dialog
CloseCreate ==
    /\ showCreateDialog
    /\ showCreateDialog' = FALSE
    /\ UNCHANGED <<hookVars, chatVars, chainParam, renaming, newName, calls, issued, lastNav,
                   download, server, unhandled>>

\* the pencil button: setRenaming(true), then the effect
ClickPencil ==
    /\ ~renaming
    /\ renaming' = TRUE
    /\ newName' = EffectNewName(TRUE, chainParam, newName)
    /\ UNCHANGED <<hookVars, chatVars, chainParam, showCreateDialog, calls, issued, lastNav,
                   download, server, unhandled>>

\* typing in the rename input
TypeName(n) ==
    /\ renaming
    /\ newName # n
    /\ newName' = n
    /\ UNCHANGED <<hookVars, chatVars, chainParam, renaming, showCreateDialog, calls, issued,
                   lastNav, download, server, unhandled>>

\* the check button: handleRename up to its await
ClickCheck ==
    /\ renaming
    /\ Issue(AgixtCall("renameChain", ChainArg, newName))
    /\ UNCHANGED <<hookVars, chatVars, chainParam, renaming, newName, showCreateDialog, lastNav,
                   download, server, unhandled>>

\* renameChain resolves: handleRename after its await; the server has renamed
\* the chain if it held it
RenameResolves(c) ==
    /\ Pending(c, "renameChain")
    /\ server' = IF c.a \in server /\ c.b # "" THEN (server \ {c.a}) \cup {c.b} ELSE server
    /\ calls' = Settled(c)
    /\ renaming' = FALSE
    /\ chainParam' = RenamedQuery(c.a, c.b)
    /\ lastNav' = [by |-> "handleRename", chain |-> chainParam', n |-> lastNav.n + 1]
    /\ UNCHANGED <<hookVars, chatVars, newName, showCreateDialog, issued, download, unhandled>>

RejectsLeavesRenameMode(c) ==
    /\ BagIn(c, calls)
    /\ calls' = Settled(c)
    /\ unhandled' = [op |-> c.op, n |-> unhandled.n + 1]
    /\ renaming' = FALSE
    /\ UNCHANGED <<hookVars, chatVars, chainParam, newName, showCreateDialog, issued,
                   lastNav, download, server>>

\* a call of context.agixt rejects: the handler has no try/catch, so nothing
\* after the await runs and the rejection goes unhandled
Rejects(c) ==
    /\ BagIn(c, calls)
    /\ calls' = Settled(c)
    /\ unhandled' = [op |-> c.op, n |-> unhandled.n + 1]
    /\ UNCHANGED <<hookVars, chatVars, chainParam, renaming, newName, showCreateDialog, issued,
                   lastNav, download, server>>

ClickDeleteWhileRenaming ==
    /\ Issue(AgixtCall("deleteChain", ChainArg, ""))
    /\ UNCHANGED <<hookVars, chatVars, chainParam, renaming, newName, showCreateDialog, lastNav,
                   download, server, unhandled>>

\* the trash button: handleDelete up to its await
ClickDelete ==
    /\ ~renaming
    /\ Issue(AgixtCall("deleteChain", ChainArg, ""))
    /\ UNCHANGED <<hookVars, chatVars, chainParam, renaming, newName, showCreateDialog, lastNav,
                   download, server, unhandled>>

\* deleteChain resolves: router.push(pathname)
DeleteResolves(c) ==
    /\ Pending(c, "deleteChain")
    /\ server' = server \ {c.a}
    /\ calls' = Settled(c)
    /\ chainParam' = Null
    /\ newName' = EffectNewName(renaming, Null, newName)
    /\ lastNav' = [by |-> "handleDelete", chain |-> Null, n |-> lastNav.n + 1]
    /\ UNCHANGED <<hookVars, chatVars, renaming, showCreateDialog, issued, download, unhandled>>

\* the download button: handleExportChain up to its await
ClickExport ==
    /\ ~renaming
    /\ Issue(AgixtCall("getChain", ChainArg, ""))
    /\ UNCHANGED <<hookVars, chatVars, chainParam, renaming, newName, showCreateDialog, lastNav,
                   download, server, unhandled>>

\* what getChain may resolve with: the chain if the server holds it, else a
\* value without steps
GetChainResults(name) == (IF name \in server THEN {MkChain(name)} ELSE {}) \cup {Malformed}

\* getChain resolves with chainData: the Blob is built and the link clicked
ExportResolves(c, chainData) ==
    /\ Pending(c, "getChain")
    /\ chainData \in GetChainResults(c.a)
    /\ calls' = Settled(c)
    /\ download' =
          [download |-> TemplateStr(c.chain) \o ".json",
           content |-> JsonStringify(chainData),
           requested |-> c.a,
           chainData |-> chainData]
    /\ UNCHANGED <<hookVars, chatVars, chainParam, renaming, newName, showCreateDialog, issued,
                   lastNav, server, unhandled>>

PanelInit ==
    /\ HookInit
    /\ cookie = UndefV
    /\ PanelIdle
    /\ ChatIdle
    /\ chainParam \in {Null, Str("A")}
    /\ server = {"A"}

\* the panel's buttons and the calls they make
PanelNext ==
    \/ \E n \in ChainNames : Select(n)
    \/ ClickCreate
    \/ CloseCreate
    \/ ClickPencil
    \/ \E n \in ChainNames : TypeName(n)
    \/ ClickCheck
    \/ ClickDelete
    \/ ClickExport
    \/ \E c \in BagToSet(calls) : RenameResolves(c)
    \/ \E c \in BagToSet(calls) : DeleteResolves(c)
    \/ \E c \in BagToSet(calls) : \E d \in GetChainResults(c.a) : ExportResolves(c, d)
    \/ \E c \in BagToSet(calls) : Rejects(c)

PanelSpec == PanelInit /\ [][PanelNext]_vars

\* the panel's mutations together with the useChain cache it reads
CacheNext ==
    \/ PanelRender
    \/ \E f \in BagToSet(inflight) : \E out \in ServerOutcomes(f.req) : NetResponse(f, out)
    \/ \E n \in ChainNames : Select(n)
    \/ ClickPencil
    \/ \E n \in ChainNames : TypeName(n)
    \/ ClickCheck
    \/ ClickDelete
    \/ \E c \in BagToSet(calls) : RenameResolves(c)
    \/ \E c \in BagToSet(calls) : DeleteResolves(c)
    \/ \E c \in BagToSet(calls) : Rejects(c)

CacheSpec == PanelInit /\ [][CacheNext]_vars

\* --------------------------------------------------- ConversationHistory
Roles == {"USER", "gpt4"}
Texts == {"hi", "yo"}
ChatItems == {ChatItem(r, m) : r \in Roles, m \in Texts}

\* the chatHistory props: null, or up to MaxLen messages
RECURSIVE SeqsUpTo(_, _)
SeqsUpTo(S, n) ==
    IF n = 0 THEN {<<>>}
    ELSE LET shorter == SeqsUpTo(S, n - 1)
         IN shorter \cup {Append(h, x) : h \in shorter, x \in S}

Histories == {Null} \cup {List(h) : h \in SeqsUpTo(ChatItems, MaxLen)}

LastUserStale(last, chatItem) == last

\* if (chatItem.role === "USER") lastUserMessage = chatItem.message
LastUser(last, chatItem) == IF chatItem.role = "USER" THEN chatItem.message ELSE last

\* <ChatMessage key={index} chatItem={chatItem} lastUserMessage={lastUserMessage} />
ChatMessage(index, chatItem, last) ==
    [key |-> index, chatItem |-> chatItem, lastUserMessage |-> Str(last), isLoading |-> FALSE]

\* ConversationHistory is called with a chatHistory: the body runs up to the map
HistoryRender(h) ==
    /\ chatHistory' = h
    /\ lastUserMessage' = ""
    /\ rendered' = <<>>
    /\ UNCHANGED <<hookVars, panelVars, chatMessage, vote, open, feedback, learned>>

\* one call of the map callback, for the next chatItem
MapStep ==
    /\ chatHistory # Null
    /\ Len(rendered) < Len(chatHistory.items)
    /\ LET index == Len(rendered)
           chatItem == chatHistory.items[index + 1]
       IN /\ lastUserMessage' = LastUser(lastUserMessage, chatItem)
          /\ rendered' = Append(rendered, ChatMessage(index, chatItem, lastUserMessage'))
    /\ UNCHANGED <<hookVars, panelVars, chatHistory, chatMessage, vote, open, feedback, learned>>

HistoryInit ==
    /\ HookInit
    /\ cookie = UndefV
    /\ PanelIdle
    /\ chainParam = Null
    /\ server = ChainNames
    /\ ChatIdle

HistoryNext ==
    \/ \E h \in Histories : HistoryRender(h)
    \/ MapStep

HistorySpec == HistoryInit /\ [][HistoryNext]_vars

\* ----------------------------------------------------------- ChatMessage
\* the element rendered while isLoading: no lastUserMessage prop
LoadingMessage ==
    [key |-> -1, chatItem |-> ChatItem("gpt4", "Let me think about that for a moment."),
     lastUserMessage |-> UndefV, isLoading |-> TRUE]

\* the ChatMessage elements ConversationHistory renders
ChatMessages ==
    {ChatMessage(0, item, LastUser(last, item)) : item \in ChatItems, last \in {"", "hi"}}
    \cup {LoadingMessage}

\* the thumbs are rendered: chatItem.role != "USER" && !isLoading
ThumbsShown == chatMessage.chatItem.role # "USER" /\ ~chatMessage.isLoading

\* handleClickOpen(newVote)
handleClickOpen(newVote) ==
    /\ vote' = newVote
    /\ open' = TRUE

\* handleClose()
handleClose == open' = FALSE

ThumbUp ==
    /\ ThumbsShown
    /\ handleClickOpen(1)
    /\ UNCHANGED <<hookVars, panelVars, chatHistory, lastUserMessage, rendered, chatMessage,
                   feedback, learned>>

ThumbDown ==
    /\ ThumbsShown
    /\ handleClickOpen(-1)
    /\ UNCHANGED <<hookVars, panelVars, chatHistory, lastUserMessage, rendered, chatMessage,
                   feedback, learned>>

\* typing in the dialog's text field
TypeFeedback(text) ==
    /\ open
    /\ feedback # text
    /\ feedback' = text
    /\ UNCHANGED <<hookVars, panelVars, chatHistory, lastUserMessage, rendered, chatMessage,
                   vote, open, learned>>

\* the Cancel button, or the dialog's onClose
Cancel ==
    /\ open
    /\ handleClose
    /\ UNCHANGED <<hookVars, panelVars, chatHistory, lastUserMessage, rendered, chatMessage,
                   vote, feedback, learned>>

\* `User Feedback: ${feedback} \n\n Message: ${chatItem.message} \n\n Last User Message: ${lastUserMessage}`
MessageText ==
    "User Feedback: " \o feedback \o " \n\n Message: " \o chatMessage.chatItem.message
    \o " \n\n Last User Message: " \o TemplateStr(chatMessage.lastUserMessage)

CollectionSwapped(v) == IF v = 1 THEN 3 ELSE 2

\* the collection number passed to learnText
Collection(v) == IF v = 1 THEN 2 ELSE 3

\* the Submit button
Submit ==
    /\ open
    /\ learned.n < MaxLearn
    /\ handleClose
    /\ learned' = [n |-> learned.n + 1, agent |-> chatMessage.chatItem.role,
                    userInput |-> chatMessage.lastUserMessage, text |-> MessageText,
                    collection |-> Collection(vote)]
    /\ UNCHANGED <<hookVars, panelVars, chatHistory, lastUserMessage, rendered, chatMessage,
                   vote, feedback>>

FeedbackInit ==
    /\ HookInit
    /\ cookie = UndefV
    /\ PanelIdle
    /\ chainParam = Null
    /\ server = ChainNames
    /\ chatHistory = Null
    /\ lastUserMessage = ""
    /\ rendered = <<>>
    /\ chatMessage \in ChatMessages
    /\ vote = 0
    /\ open = FALSE
    /\ feedback = ""
    /\ learned = NoLearn

FeedbackNext ==
    \/ ThumbUp
    \/ ThumbDown
    \/ \E text \in {"", "good"} : TypeFeedback(text)
    \/ Cancel
    \/ Submit

FeedbackSpec == FeedbackInit /\ [][FeedbackNext]_vars

\* ------------------------------------------------- properties of the hooks
\* a fetcher started in this step
Started(f) == CopiesIn(f, inflight') > CopiesIn(f, inflight)

WellFormed(q, out) == out = Ok(Resp(FieldOf(q.op), GoodValue(q)))

\* the hooks whose fetcher parses the response with a schema
Validated(c) ==
    \/ c.hook \in {"useUser", "useProvider", "useProviders", "useInvitations",
                   "useCommandArgs", "useChain", "useChains", "useConversations"}
    \/ c.hook = "useAgent" /\ c.ws

\* the hooks that take a name or an id
Identified(c) ==
    c.hook \in {"useAgent", "useProvider", "useCommandArgs", "useChain", "useConversation",
                "useInvitations", "usePrompt", "useCompany", "useOldInvitations"}

RequestsOf(c) == {r \in requests : r.call = c}

C2_NoHookErrorState ==
    /\ \A k \in DOMAIN cache : ~cache[k].error
    /\ \A c \in mounted : ~HookError(c) /\ HookData(c) # UndefV

\* C3: when a validating hook's request is answered by a response that fails
\* validation, its fetcher returns the fallback: the cache entry holds the
\* fallback, not the malformed value, and is not in the error state.
C3_MalformedGivesFallback ==
    (/\ Validated(settled.call)
     /\ settled.out.kind = "resp"
     /\ ~WellFormed(settled.req, settled.out)) =>
        /\ settled.key \in DOMAIN cache
        /\ cache[settled.key].data = fallbackData(settled.call.hook)
        /\ ~cache[settled.key].error

C3_Witness ==
    /\ settled.call.hook = "useProviders"
    /\ settled.out = Ok(Resp("providers", Malformed))
    /\ cache[settled.key].data = EmptyList

\* C4: useChain(undefined) returns null and never fetches; useChain(n)
\* requests GetChain with chainName = n, and once its fetcher settles the data
\* is the chain of a well-formed response, null otherwise.
C4_UseChain ==
    /\ \A c \in mounted :
          c.hook = "useChain" /\ ~Truthy(c.arg) =>
              HookData(c) = Null /\ RequestsOf(c) = {}
    /\ \A r \in requests :
          r.call.hook = "useChain" =>
              Truthy(r.call.arg) /\ r.req = Req("GetChain", r.call.arg)
    /\ settled.call.hook = "useChain" =>
          /\ settled.req = Req("GetChain", settled.call.arg)
          /\ ~cache[settled.key].error
          /\ cache[settled.key].data =
                IF WellFormed(settled.req, settled.out)
                THEN MkChain(settled.call.arg.s)
                ELSE Null

C4_Witness ==
    /\ settled.call = Call("useChain", Str("A"), FALSE)
    /\ HookData(settled.call) = MkChain("A")

\* C5: no cache key ever has two fetchers running at once, so no key has two
\* network requests outstanding at once.
C5_OneFetchPerKey ==
    \A f \in BagToSet(inflight) :
        /\ CopiesIn(f, inflight) = 1
        /\ \A g \in BagToSet(inflight) : g.key = f.key => g = f

\* two components whose hooks share the key '/chains' are mounted, and one
\* fetcher runs for it
C5_Witness ==
    /\ mounted = {NoArg("useChains"), NoArg("useConversations")}
    /\ Cardinality({f \in BagToSet(inflight) : f.key = StrKey("/chains")}) = 1

C10_SettingsOnlyOnRequest ==
    /\ \A r \in requests :
          r.req.op = "GetAgent" => r.call.hook = "useAgent" /\ r.call.ws
    /\ \A r \in requests :
          r.call.hook = "useAgent" /\ ~r.call.ws => r.req.op = "getCommands"
    /\ (settled.call.hook = "useAgent" /\ ~settled.call.ws) =>
          LET agent == cache[settled.key].data.agent
              loaded == Items(settled.key.parts[2])
          IN \/ agent = Null
             \/ \E i \in 1..Len(loaded) : \E j \in 1..Len(loaded[i].agents) :
                    loaded[i].agents[j] = agent

C10_Witness ==
    /\ settled.call = Call("useAgent", UndefV, FALSE)
    /\ cache[settled.key].data.agent = MkAgent("a2", TRUE)
    /\ \A r \in requests : r.req.op # "GetAgent"

\* --------------------------------------------- properties of ChainPanel
ChainKey(n) == NullableKey("/chain", Str(n))

\* C6 as claimed: once a delete or rename has resolved, the cache no longer
\* holds the chain it removed from the server, unless that key is being
\* revalidated.
C6_MutationInvalidatesCache ==
    \A n \in ChainNames :
        (/\ n \notin server
         /\ ChainKey(n) \in DOMAIN cache
         /\ cache[ChainKey(n)].data = MkChain(n)) => InFlight(ChainKey(n), inflight)

\* C7: handleRename navigates only in the step in which a renameChain call
\* resolves, to the new name of that call, and leaves rename mode in that
\* step; the step that issues the call changes neither.
C7_RenameNavigatesAfterResolve ==
    [][/\ \A c \in BagToSet(calls) :
             RenameResolves(c) =>
                 /\ lastNav'.by = "handleRename"
                 /\ lastNav'.n = lastNav.n + 1
                 /\ chainParam' = Str(c.b)
                 /\ ~renaming'
       /\ (lastNav'.n > lastNav.n /\ lastNav'.by = "handleRename") =>
             \E c \in BagToSet(calls) :
                 /\ c.op = "renameChain"
                 /\ CopiesIn(c, calls') = CopiesIn(c, calls) - 1
                 /\ lastNav'.chain = Str(c.b)
                 /\ chainParam' = Str(c.b)
                 /\ ~renaming'
       /\ issued' > issued =>
             /\ lastNav' = lastNav
             /\ chainParam' = chainParam
             /\ renaming' = renaming]_vars

C7_Witness ==
    /\ lastNav.by = "handleRename"
    /\ chainParam = Str("B")
    /\ ~renaming
    /\ server = {"B"}

\* C8 as claimed: the exported file is named after the chain whose steps were
\* requested with getChain, also when no chain is selected.
C8_ExportNamedAfterChain ==
    download # NoDownload =>
        /\ download.download = download.requested \o ".json"
        /\ download.content = JsonStringify(download.chainData)

\* C11: the step in which a call of context.agixt rejects (renameChain,
\* deleteChain or getChain) navigates nowhere, leaves the 'chain' query
\* parameter and the download as they were and does not change rename mode:
\* rename mode that was active stays active.
C11_RejectionChangesNothing ==
    [][unhandled'.n > unhandled.n =>
          /\ unhandled'.op \in {"renameChain", "deleteChain", "getChain"}
          /\ lastNav' = lastNav
          /\ chainParam' = chainParam
          /\ renaming' = renaming
          /\ download' = download]_vars

\* a renameChain call was rejected: rename mode is still active on chain A
C11_Witness ==
    /\ unhandled.op = "renameChain"
    /\ renaming
    /\ chainParam = Str("A")
    /\ lastNav.n = 0
    /\ calls = EmptyBag

\* the calls of operation op that are outstanding
Outstanding(op) ==
    LET pending == {c \in BagToSet(calls) : c.op = op}
    IN BagCardinality([c \in pending |-> CopiesIn(c, calls)])

\* a step that issues a call of operation op
Starts(op) ==
    \E c \in BagToSet(calls') : c.op = op /\ CopiesIn(c, calls') > CopiesIn(c, calls)

\* C17 as claimed: the buttons' enablement, and at most one renameChain call
\* outstanding at any time.
C17_OneRenameOutstanding ==
    [][/\ Starts("deleteChain") \/ Starts("getChain") => ~renaming
       /\ (showCreateDialog' /\ ~showCreateDialog) => ~renaming
       /\ Starts("renameChain") => renaming
       /\ Outstanding("renameChain")' <= 1]_vars

\* C17 amended: a deleteChain call, an export (getChain) call and the opening
\* of the create dialog start only while rename mode is inactive, and a
\* renameChain call starts only while rename mode is active.
C17_ButtonsFollowRenameMode ==
    [][/\ Starts("deleteChain") \/ Starts("getChain") => ~renaming
       /\ (showCreateDialog' /\ ~showCreateDialog) => ~renaming
       /\ Starts("renameChain") => renaming]_vars

\* a deleteChain call started before rename mode is still pending while a
\* renameChain call, started in rename mode, is pending too
C17_Witness ==
    /\ renaming
    /\ Outstanding("deleteChain") = 1
    /\ Outstanding("renameChain") = 1

\* ------------------------------------------------ properties of useAgent
\* the agent the claim selects from the loaded companies: the first agent
\* flagged default of the first primary company, else that company's first
\* agent; Null when there is no primary company with an agent
Selected(companies) ==
    LET primaries == {i \in 1..Len(companies) : companies[i].primary}
        p == CHOOSE i \in primaries : \A j \in primaries : i <= j
        agents == companies[p].agents
        defaults == {i \in 1..Len(agents) : agents[i].default}
    IN IF primaries = {} THEN Null
       ELSE IF agents = <<>> THEN Null
       ELSE IF defaults = {} THEN agents[1]
       ELSE agents[CHOOSE i \in defaults : \A j \in defaults : i <= j]

\* C12: when the body of useAgent(name) runs, the name it searches for is the
\* name argument if non-empty, else the cookie if set, else the name of the
\* selected agent of the primary company; the cookie is written only in that
\* last case, with exactly that name, and is otherwise left alone.
C12_AgentNamePrecedence ==
    [][\A c \in AgentCalls :
          (Mount(c) \/ Render(c)) =>
              LET picked == Selected(Items(CompaniesData))
                  fromCompanies == ~Truthy(c.arg) /\ ~Truthy(cookie) /\ picked # Null
                  expected == IF Truthy(c.arg) THEN c.arg
                              ELSE IF Truthy(cookie) THEN cookie
                              ELSE IF picked # Null THEN Str(picked.name)
                              ELSE cookie
              IN /\ cookie' = IF fromCompanies THEN Str(picked.name) ELSE cookie
                 /\ \A f \in BagToSet(inflight') :
                       (Started(f) /\ f.call = c) =>
                           /\ f.clo.searchName = expected
                           /\ f.key.parts[1] = Str("/agent?name=" \o TemplateStr(expected))
                           /\ f.clo.foundEarly = IF fromCompanies THEN picked ELSE Null]_vars

\* useAgent() ran with no name and no cookie over a primary company whose
\* second agent is the default one: the cookie now names that agent
C12_Witness ==
    /\ mounted = {Call("useAgent", UndefV, FALSE)}
    /\ CompaniesData = List(<<Company1>>)
    /\ cookie = Str("a2")
    /\ \E f \in BagToSet(inflight) :
          f.call.hook = "useAgent" /\ f.clo.searchName = Str("a2")

\* ------------------------------------- properties of ConversationHistory
\* the text of the latest USER message among the first i messages of h
LatestUser(h, i) ==
    LET users == {j \in 1..i : h[j].role = "USER"}
    IN IF users = {} THEN ""
       ELSE h[CHOOSE j \in users : \A k \in users : k <= j].message

\* C13: the ChatMessage elements are rendered in the order of chatHistory,
\* and the lastUserMessage of the element at index i is the text of the
\* latest USER message at an index <= i, or "" if there is none; a USER
\* message gets its own text.
C13_LastUserMessage ==
    /\ chatHistory = Null => rendered = <<>>
    /\ chatHistory # Null =>
          /\ Len(rendered) <= Len(chatHistory.items)
          /\ \A i \in 1..Len(rendered) :
                /\ rendered[i].key = i - 1
                /\ rendered[i].chatItem = chatHistory.items[i]
                /\ rendered[i].lastUserMessage = Str(LatestUser(chatHistory.items, i))
                /\ rendered[i].chatItem.role = "USER" =>
                      rendered[i].lastUserMessage = Str(rendered[i].chatItem.message)

\* a history of a question, an answer and a second question is rendered: the
\* answer carries the first question, the last message its own text
C13_Witness ==
    /\ Len(rendered) = 3
    /\ rendered[1].chatItem = ChatItem("USER", "hi")
    /\ rendered[2].chatItem.role = "gpt4"
    /\ rendered[2].lastUserMessage = Str("hi")
    /\ rendered[3].lastUserMessage = Str("yo")

\* C14: the dialog is open only with vote 1 or -1, and it opens only by a
\* thumb click; Submit closes it and makes exactly one learnText call, with
\* collection 2 when vote is 1 and 3 otherwise; Cancel closes it and makes
\* none; no other step makes a learnText call.
C14_FeedbackDialog ==
    /\ [](open => vote \in {1, -1})
    /\ [][/\ (open' /\ ~open) => (ThumbUp \/ ThumbDown) /\ vote' \in {1, -1}
          /\ Submit => /\ ~open'
                       /\ learned'.n = learned.n + 1
                       /\ learned'.collection = (IF vote = 1 THEN 2 ELSE 3)
          /\ Cancel => ~open' /\ learned' = learned
          /\ learned' # learned => open /\ ~open' /\ learned'.n = learned.n + 1]_vars

\* feedback was submitted once, after a thumb down
C14_Witness ==
    /\ learned.n = 1
    /\ learned.collection = 3
    /\ vote = -1
    /\ ~open

\* the hook whose fetcher produced the value cached under key k
Producer(k) ==
    IF k # NullKey /\ k \in DOMAIN cache /\ cache[k].data # UndefV
    THEN cache[k].by
    ELSE "none"

\* C15: the data a mounted hook returns from the cache was produced by that
\* hook's own fetcher: no value cached by one hook (useChains, useInvitations
\* without a company id) is returned by a distinct hook (useConversations,
\* useOldInvitations without a company id), or the other way round.
C15_OwnFetcherOnly ==
    \A c \in mounted : Producer(KeyOf(c)) \in {"none", c.hook}

\* prompts?.find((p) => p.name === name) on a prompts list
PromptNamed(name, ps) ==
    Find(ps, {i \in 1..Len(ps) : Str(ps[i].name) = name})

\* C16: once usePrompts holds a list with a prompt named name and every
\* fetcher has settled, usePrompt(name) returns that prompt, not null, also
\* when its fetcher first ran while the list was the empty fallback.
C16_PromptFoundOnceListed ==
    \A c \in mounted :
        (/\ c.hook = "usePrompt"
         /\ inflight = EmptyBag
         /\ PromptNamed(c.arg, Items(PromptsData)) # UndefV)
            => HookData(c) = PromptNamed(c.arg, Items(PromptsData))

====
